---- MODULE Spec2Model ----
(***************************************************************************)
(* FlashMemo: the capture / batch-reconciliation / retrieval workflow of   *)
(* the App component over the localStorage persistence adapter.            *)
(*                                                                         *)
(* JavaScript runs every handler to completion, so one action is one       *)
(* synchronous stretch of code: from an event (a click, a response of the  *)
(* remote model) up to the next await.                                     *)
(***************************************************************************)
EXTENDS Integers, Sequences, FiniteSets, Bags, TLC

\* ---------------------------------------------------------------- bounds
\* Records ever created (generateId never repeats an id).
MaxIds == 2
\* Batch runs that may be suspended on the remote model at the same time.
MaxRuns == 2
\* Records in the list a geminiService function is called with on its own.
MaxCorpus == 2
\* Recordings being read or transcribed at the same time.
MaxRecordings == 2

\* ---------------------------------------------------------------- values
\* A field that is absent from an object (undefined; JSON.stringify drops it).
Undefined == "undefined"

\* Text typed into the capture bar or the search box: sequences of characters.
Texts == { <<>>, <<" ">>, <<" ", "a">> }

\* Record timestamps: Date.now() (wall clock) or the developer's customDate.
Times == {1, 2}

\* MetaTags values, as sets of <<dimension, values>> pairs.
EmptyTags == {}
RandomTags == { <<"People", <<"s">> >>, <<"Action", <<"random_gen">> >> }

\* What a recording resolves to: new Blob(chunks, {type: 'audio/webm'}).
AudioBlobs == { [type |-> "audio/webm", data |-> "AAAA"] }

\* rawContent / processedContent of a voice record before reconciliation.
AudioRaw == <<"[voice]">>
AudioPendingContent == <<"[voice]", " (pending)">>

\* Sentence built by the developer tool's random generator.
RandomContent == <<"r">>

\* Parsed responses of the extraction call (JSON.parse(response.text)).
AnalyzeResults ==
  { [processedContent |-> <<"P1">>, tags |-> { <<"Object", <<"o1">> >> }] }

\* A record stored before the status field existed.
LegacyMemory ==
  [id |-> 0, rawContent |-> <<"l">>, processedContent |-> <<"l">>,
   timestamp |-> 1, tags |-> EmptyTags, status |-> Undefined,
   audioData |-> Undefined, mimeType |-> Undefined]

\* ------------------------------------------------- String.prototype.trim
IsSpace(c) == c = " "

RECURSIVE TrimStart(_)
TrimStart(s) ==
  IF s = <<>> THEN s
  ELSE IF IsSpace(Head(s)) THEN TrimStart(Tail(s)) ELSE s

RECURSIVE TrimEnd(_)
TrimEnd(s) ==
  IF s = <<>> THEN s
  ELSE IF IsSpace(s[Len(s)]) THEN TrimEnd(SubSeq(s, 1, Len(s) - 1)) ELSE s

Trim(s) == TrimEnd(TrimStart(s))

\* ------------------------------------------------------- storageService
\* The value under STORAGE_KEY: no item, text that JSON.parse rejects (the
\* JSON text of an array cut short, kept as the array it was), or the JSON
\* text of an array of records (kept as the array it parses to).
NoItem == [kind |-> "null", items |-> <<>>]
BadItem == [kind |-> "bad", items |-> <<LegacyMemory>>]

\* JSON.stringify of an array of records.
Stringify(ms) == [kind |-> "json", items |-> ms]

\* getMemories that salvages the records of text JSON.parse rejects.
getMemoriesSalvages(blob) ==
  IF blob.kind = "null" THEN <<>>
  ELSE [i \in 1..Len(blob.items) |->
          [blob.items[i] EXCEPT
             !.status = IF @ = Undefined THEN "processed" ELSE @]]

\* getMemories without the default for a missing status.
getMemoriesAsStored(blob) ==
  IF blob.kind = "null" THEN <<>>
  ELSE IF blob.kind = "bad" THEN <<>>
  ELSE blob.items

getMemories(blob) ==
  IF blob.kind = "null" THEN <<>>
  ELSE IF blob.kind = "bad" THEN <<>>
  ELSE [i \in 1..Len(blob.items) |->
          [blob.items[i] EXCEPT
             !.status = IF @ = Undefined THEN "processed" ELSE @]]

\* Array.prototype.findIndex(m => m.id === id): 0-based, -1 when absent.
findIndex(ms, id) ==
  IF \E i \in 1..Len(ms) : ms[i].id = id
  THEN (CHOOSE i \in 1..Len(ms) :
          /\ ms[i].id = id
          /\ \A j \in 1..(i - 1) : ms[j].id # id) - 1
  ELSE -1

\* saveMemory that appends the record instead of prepending it.
saveMemoryAppends(blob, memory) ==
  LET current == getMemories(blob)
      updated == current \o <<memory>>
  IN  Stringify(updated)

\* saveMemory that writes the new record alone.
saveMemoryOverwrites(blob, memory) == Stringify(<<memory>>)

saveMemory(blob, memory) ==
  LET current == getMemories(blob)
      updated == <<memory>> \o current
  IN  Stringify(updated)

\* updateMemory that inserts the record when its id is absent.
updateMemoryUpserts(blob, memory) ==
  LET current == getMemories(blob)
      index == findIndex(current, memory.id)
  IN  IF index # -1
      THEN Stringify([current EXCEPT ![index + 1] = memory])
      ELSE Stringify(current \o <<memory>>)

\* updateMemory that removes the old record and puts the new one in front.
updateMemoryMovesToFront(blob, memory) ==
  LET current == getMemories(blob)
      index == findIndex(current, memory.id)
  IN  IF index # -1
      THEN Stringify(<<memory>> \o SubSeq(current, 1, index)
                     \o SubSeq(current, index + 2, Len(current)))
      ELSE blob

updateMemory(blob, memory) ==
  LET current == getMemories(blob)
      index == findIndex(current, memory.id)
  IN  IF index # -1
      THEN Stringify([current EXCEPT ![index + 1] = memory])
      ELSE blob

clearMemories == NoItem

\* ------------------------------------------------------------ App helpers
\* Array.prototype.sort((a, b) => b.timestamp - a.timestamp): stable.
RECURSIVE InsertDesc(_, _)
InsertDesc(m, sorted) ==
  IF sorted = <<>> THEN <<m>>
  ELSE IF Head(sorted).timestamp >= m.timestamp
       THEN <<Head(sorted)>> \o InsertDesc(m, Tail(sorted))
       ELSE <<m>> \o sorted

RECURSIVE SortDesc(_)
SortDesc(ms) ==
  IF ms = <<>> THEN <<>>
  ELSE LET rest == SortDesc(SubSeq(ms, 1, Len(ms) - 1))
       IN  InsertDesc(ms[Len(ms)], rest)

\* refreshMemories without the sort: the list is in stored order.
refreshMemoriesUnsorted(blob) == getMemories(blob)

\* refreshMemories: the value given to setMemories.
refreshMemories(blob) == SortDesc(getMemories(blob))

\* Array.prototype.filter.
RECURSIVE FilterStatus(_, _)
FilterStatus(ms, st) ==
  IF ms = <<>> THEN <<>>
  ELSE IF Head(ms).status = st
       THEN <<Head(ms)>> \o FilterStatus(Tail(ms), st)
       ELSE FilterStatus(Tail(ms), st)

\* processedMemories without the filter.
processedMemoriesUnfiltered(ms) == ms

processedMemories(ms) == FilterStatus(ms, "processed")

pendingCount(ms) == Len(FilterStatus(ms, "pending"))

\* ---------------------------------------------------------- geminiService
\* What the remote model's generateContent call ends with: a rejection, a
\* response without text, text that is not JSON, or JSON text (kept parsed).
AnalyzeResponses ==
  { [kind |-> "reject", value |-> Undefined],
    [kind |-> "notext", value |-> Undefined],
    [kind |-> "garbage", value |-> Undefined] }
  \cup { [kind |-> "json", value |-> v] : v \in AnalyzeResults }

\* analyzeInput after its await: TRUE when it throws (the promise rejects).
analyzeInputThrows(response) ==
  \/ response.kind = "reject"
  \/ response.kind = "notext"
  \/ response.kind = "garbage"

\* analyzeInput's return value when it does not throw.
analyzeInputValue(response) == response.value

\* Parsed responses of the retrieval call: clustered answers.
SearchResults == { "R1" }

SearchResponses ==
  { [kind |-> "reject", value |-> Undefined],
    [kind |-> "notext", value |-> Undefined],
    [kind |-> "garbage", value |-> Undefined] }
  \cup { [kind |-> "json", value |-> v] : v \in SearchResults }

\* semanticSearch after its await: TRUE when it throws.
semanticSearchThrows(response) ==
  \/ response.kind = "reject"
  \/ response.kind = "notext"
  \/ response.kind = "garbage"

semanticSearchValue(response) == response.value

\* Parsed responses of the suggestion call: arrays of questions.
SuggestionLists == { <<"q1", "q2", "q3">> }

SuggestResponses ==
  { [kind |-> "reject", value |-> Undefined],
    [kind |-> "notext", value |-> Undefined],
    [kind |-> "garbage", value |-> Undefined] }
  \cup { [kind |-> "json", value |-> v] : v \in SuggestionLists }

\* The three questions generateSuggestions returns for an empty list.
StaticSuggestions == <<"bought", "met", "todo">>

\* The part of its argument generateSuggestions puts in the prompt:
\* memories.slice(0, 10).
RecentCount == 10

recent(memories) ==
  SubSeq(memories, 1, IF Len(memories) < RecentCount THEN Len(memories)
                      ELSE RecentCount)

\* generateSuggestions that sends its request whatever the list.
generateSuggestionsNeverEarly(memories) == FALSE

\* generateSuggestions: TRUE when it returns before any request is made.
generateSuggestionsReturnsEarly(memories) == Len(memories) = 0

\* generateSuggestions after its await: TRUE when it throws.
generateSuggestionsThrows(response) ==
  \/ response.kind = "reject"
  \/ response.kind = "garbage"

\* generateSuggestions' return value after its await, when it does not throw.
generateSuggestionsValue(response) ==
  IF response.kind = "notext" THEN <<>> ELSE response.value

\* The first argument of analyzeInput in handleBatchProcess: the recording
\* when the record has one, its rawContent otherwise.
analyzeInputArg(mem) ==
  IF mem.audioData # Undefined /\ mem.audioData # "" /\
     mem.mimeType # Undefined /\ mem.mimeType # ""
  THEN [audio |-> TRUE, mimeType |-> mem.mimeType, data |-> mem.audioData,
        text |-> <<>>]
  ELSE [audio |-> FALSE, mimeType |-> Undefined, data |-> Undefined,
        text |-> mem.rawContent]

\* updatedMem with the spread last: {processedContent, tags, status, ...mem}.
updatedMemSpreadLast(mem, result) == mem

\* updatedMem built field by field, without the optional audio fields.
updatedMemWithoutAudio(mem, result) ==
  [id |-> mem.id, rawContent |-> mem.rawContent,
   processedContent |-> result.processedContent,
   timestamp |-> mem.timestamp, tags |-> result.tags, status |-> "processed",
   audioData |-> Undefined, mimeType |-> Undefined]

\* updatedMem in handleBatchProcess: {...mem, processedContent, tags, status}.
updatedMem(mem, result) ==
  [mem EXCEPT !.processedContent = result.processedContent,
              !.tags = result.tags,
              !.status = "processed"]

\* newMemory with the trimmed text as processedContent.
newTextMemoryTrimmed(id, text, timestamp) ==
  [id |-> id, rawContent |-> text, processedContent |-> Trim(text),
   timestamp |-> timestamp, tags |-> EmptyTags, status |-> "pending",
   audioData |-> Undefined, mimeType |-> Undefined]

\* newMemory in CaptureBar.handleTextSubmit.
newTextMemory(id, text, timestamp) ==
  [id |-> id, rawContent |-> text, processedContent |-> text,
   timestamp |-> timestamp, tags |-> EmptyTags, status |-> "pending",
   audioData |-> Undefined, mimeType |-> Undefined]

\* newMemory in CaptureBar.saveAudioMemory; the data URL of the blob is
\* "data:<type>;base64,<data>", split back into its two parts.
newAudioMemory(id, blob, timestamp) ==
  LET base64data == <<"data:", blob.type, ";base64", ",", blob.data>>
      base64Content == base64data[5]
      mimeType == base64data[2]
  IN  [id |-> id, rawContent |-> AudioRaw,
       processedContent |-> AudioPendingContent,
       timestamp |-> timestamp, tags |-> EmptyTags, status |-> "pending",
       audioData |-> base64Content, mimeType |-> mimeType]

\* newMemory in processAudio of the CaptureBar that transcribes at once.
newVoiceMemory(id, result, timestamp) ==
  [id |-> id, rawContent |-> AudioRaw,
   processedContent |-> result.processedContent,
   timestamp |-> timestamp, tags |-> result.tags, status |-> "processed",
   audioData |-> Undefined, mimeType |-> Undefined]

\* mem in DevTools.generateRandomMemory.
newRandomMemory(id, timestamp) ==
  [id |-> id, rawContent |-> RandomContent,
   processedContent |-> RandomContent,
   timestamp |-> timestamp, tags |-> RandomTags, status |-> "processed",
   audioData |-> Undefined, mimeType |-> Undefined]

\* ------------------------------------------------------------------ state
VARIABLES
  storage,              \* localStorage[STORAGE_KEY]
  memories,             \* App state: the list shown, set by refreshMemories
  isProcessingPending,  \* App state
  devMode,              \* App state
  searchResult,         \* App state
  isSearching,          \* App state
  query,                \* App state: the text of the search input
  captureBar,           \* CaptureBar (voice transcribed at once): its state
  searchCalls,          \* semanticSearch calls awaiting the remote model
  runs,                 \* handleBatchProcess invocations awaiting analyzeInput
  nextId,               \* the next id generateId returns
  alert,                \* the alert() dialog that is open, if any
  suggestions,          \* SmartSuggestions state
  loading,              \* SmartSuggestions state
  effectDeps,           \* SmartSuggestions: [memories.length] of its last effect
  suggestCalls,         \* generateSuggestions calls awaiting the remote model
  svc,                  \* a geminiService function called on its own
  lastOp,               \* history: the last write to storage
  expected,             \* history: the collection the operations should give
  suggestCause          \* history: what set the suggestions last

\* The state of the SmartSuggestions component.
sugVars == <<suggestions, loading, effectDeps, suggestCalls, suggestCause>>

vars ==
  <<storage, memories, isProcessingPending, devMode, searchResult,
    isSearching, searchCalls, runs, nextId, alert, sugVars, svc, lastOp,
    expected, query, captureBar>>

\* The collection with the record of m's id replaced by m.
Replaced(ms, m) == [i \in 1..Len(ms) |-> IF ms[i].id = m.id THEN m ELSE ms[i]]

Null == "null"

\* Searches that may be awaiting the remote model at the same time.
MaxSearches == 1

\* lastOp: the last operation that wrote storage, and the id of its record.
Op(name, id) == [op |-> name, id |-> id]

\* The dialog of handleBatchProcess's catch block.
BatchAlert == "batch failed"

\* No geminiService function is being called on its own.
NoCall == [fn |-> Null, arg |-> Null, pc |-> "done", requests |-> 0,
           response |-> Null, outcome |-> [kind |-> "none", value |-> Null]]

InitialBlobs == { NoItem, BadItem, Stringify(<<LegacyMemory>>) }

\* CaptureBar that transcribes a recording at once: isProcessing, the
\* FileReaders still loading a recording, and the analyzeInput calls made
\* from their onloadend callbacks.
CaptureBarInit == [isProcessing |-> FALSE, reads |-> EmptyBag, calls |-> EmptyBag]

\* The state after App has mounted: useState defaults, then the mount effect.
Init ==
  /\ storage \in InitialBlobs
  /\ memories = refreshMemories(storage)
  /\ isProcessingPending = FALSE
  /\ devMode = FALSE
  /\ searchResult = Null
  /\ isSearching = FALSE
  /\ searchCalls = {}
  /\ runs = EmptyBag
  /\ nextId = 1
  /\ alert = Null
  /\ suggestions = <<>>
  /\ loading = FALSE
  /\ effectDeps = 0
  /\ suggestCalls = EmptyBag
  /\ suggestCause = "mount"
  /\ svc = NoCall
  /\ query = <<>>
  /\ captureBar = CaptureBarInit
  /\ lastOp = Op("init", -1)
  /\ expected = getMemories(storage)

\* -------------------------------------------------------------- CaptureBar
handleTextSubmit(text, timestamp) ==
  /\ alert = Null
  /\ Trim(text) # <<>>
  /\ nextId <= MaxIds
  /\ storage' = saveMemory(storage, newTextMemory(nextId, text, timestamp))
  /\ memories' = refreshMemories(storage')
  /\ nextId' = nextId + 1
  /\ lastOp' = Op("text", nextId)
  /\ expected' = <<newTextMemory(nextId, text, timestamp)>> \o expected
  /\ UNCHANGED <<isProcessingPending, devMode, searchResult, isSearching,
                 searchCalls, runs,
                 alert, svc, captureBar, query, sugVars>>

saveAudioMemory(blob, timestamp) ==
  /\ alert = Null
  /\ nextId <= MaxIds
  /\ storage' = saveMemory(storage, newAudioMemory(nextId, blob, timestamp))
  /\ memories' = refreshMemories(storage')
  /\ nextId' = nextId + 1
  /\ lastOp' = Op("audio", nextId)
  /\ expected' = <<newAudioMemory(nextId, blob, timestamp)>> \o expected
  /\ UNCHANGED <<isProcessingPending, devMode, searchResult, isSearching,
                 searchCalls, runs,
                 alert, svc, captureBar, query, sugVars>>

\* ------------------------------ CaptureBar that transcribes a voice at once
VoiceAlert == "voice failed"

\* What every step of processAudio leaves of App's state.
audioFrame ==
  <<isProcessingPending, devMode, searchResult, isSearching, searchCalls,
    runs, svc, query, sugVars>>

\* The recordings that are being read or transcribed.
Recordings == BagCardinality(captureBar.reads) + BagCardinality(captureBar.calls)

\* processAudio, called from the recorder's onstop: it has no await, so it
\* runs to its end in one stretch: setIsProcessing(true), the FileReader is
\* started and its onloadend callback set, and the finally block calls
\* setIsProcessing(false).
processAudio(blob) ==
  /\ alert = Null
  /\ Recordings < MaxRecordings
  /\ captureBar' = [captureBar EXCEPT !.isProcessing = FALSE,
                                      !.reads = @ (+) SetToBag({blob})]
  /\ UNCHANGED <<storage, memories, nextId, lastOp, expected, alert,
                 audioFrame>>

\* reader.onloadend up to its await: the data URL is split, the timestamp
\* taken and analyzeInput called.
readerLoaded(blob, timestamp) ==
  LET base64data == <<"data:", blob.type, ";base64", ",", blob.data>>
      call == [input |-> [audio |-> TRUE, mimeType |-> base64data[2],
                          data |-> base64data[5], text |-> <<>>],
               timestamp |-> timestamp]
  IN  /\ alert = Null
      /\ BagIn(blob, captureBar.reads)
      /\ captureBar' = [captureBar EXCEPT !.reads = @ (-) SetToBag({blob}),
                                          !.calls = @ (+) SetToBag({call})]
      /\ UNCHANGED <<storage, memories, nextId, lastOp, expected, alert,
                     audioFrame>>

\* reader.onloadend after its await, analyzeInput having returned: the
\* processed record is saved and the list refreshed.
voiceReturns(call, response) ==
  LET newMemory ==
        newVoiceMemory(nextId, analyzeInputValue(response), call.timestamp)
  IN  /\ alert = Null
      /\ BagIn(call, captureBar.calls)
      /\ ~analyzeInputThrows(response)
      /\ nextId <= MaxIds
      /\ storage' = saveMemory(storage, newMemory)
      /\ memories' = refreshMemories(storage')
      /\ nextId' = nextId + 1
      /\ lastOp' = Op("voice", nextId)
      /\ expected' = <<newMemory>> \o expected
      /\ captureBar' = [captureBar EXCEPT !.calls = @ (-) SetToBag({call})]
      /\ UNCHANGED <<alert, audioFrame>>

\* reader.onloadend after its await, analyzeInput having thrown: the
\* callback's promise rejects and nothing handles it, the try block of
\* processAudio having been left long before.
voiceThrows(call, response) ==
  /\ alert = Null
  /\ BagIn(call, captureBar.calls)
  /\ analyzeInputThrows(response)
  /\ captureBar' = [captureBar EXCEPT !.calls = @ (-) SetToBag({call})]
  /\ UNCHANGED <<storage, memories, nextId, lastOp, expected, alert,
                 audioFrame>>

\* ---------------------------------------------------------------- DevTools
generateRandomMemory(timestamp) ==
  /\ alert = Null
  /\ devMode
  /\ nextId <= MaxIds
  /\ storage' = saveMemory(storage, newRandomMemory(nextId, timestamp))
  /\ memories' = refreshMemories(storage')
  /\ nextId' = nextId + 1
  /\ lastOp' = Op("random", nextId)
  /\ expected' = <<newRandomMemory(nextId, timestamp)>> \o expected
  /\ UNCHANGED <<isProcessingPending, devMode, searchResult, isSearching,
                 searchCalls, runs,
                 alert, svc, captureBar, query, sugVars>>

\* --------------------------------------------------------------------- App
\* The developer-mode switch in the header.
toggleDevMode ==
  /\ alert = Null
  /\ devMode' = ~devMode
  /\ UNCHANGED <<storage, memories, isProcessingPending, searchResult,
                 isSearching, searchCalls, runs, nextId, lastOp, expected,
                 alert, svc, captureBar, query, sugVars>>

\* The clear-all button: shown in developer mode, in the list view.
clearAll ==
  /\ alert = Null
  /\ devMode
  /\ searchResult = Null
  /\ storage' = clearMemories
  /\ memories' = refreshMemories(storage')
  /\ lastOp' = Op("clear", -1)
  /\ expected' = <<>>
  /\ UNCHANGED <<isProcessingPending, devMode, searchResult, isSearching,
                 searchCalls, runs, nextId,
                 alert, svc, captureBar, query, sugVars>>

handleClearSearch ==
  /\ alert = Null
  /\ query' = <<>>
  /\ searchResult' = Null
  /\ isSearching' = FALSE
  /\ UNCHANGED <<storage, memories, isProcessingPending, devMode,
                 searchCalls, runs, nextId, lastOp, expected,
                 alert, svc, captureBar, sugVars>>

\* handleSearch up to its await: a blank query clears the search, any other
\* one is sent with the processed memories of the list shown.
handleSearch(text) ==
  IF Trim(text) = <<>>
  THEN handleClearSearch
  ELSE /\ alert = Null
       /\ Cardinality(searchCalls) < MaxSearches
       /\ query' = text
       /\ isSearching' = TRUE
       /\ searchCalls' = searchCalls \cup
            { [query |-> text, memories |-> processedMemories(memories)] }
       /\ UNCHANGED <<storage, memories, isProcessingPending, devMode,
                      searchResult, runs, nextId, lastOp, expected,
                      alert, svc, captureBar, sugVars>>

\* handleSearch after its await, semanticSearch having returned.
searchReturns(call, response) ==
  /\ alert = Null
  /\ call \in searchCalls
  /\ ~semanticSearchThrows(response)
  /\ searchCalls' = searchCalls \ {call}
  /\ searchResult' = semanticSearchValue(response)
  /\ isSearching' = FALSE
  /\ UNCHANGED <<storage, memories, isProcessingPending, devMode, runs,
                 nextId, lastOp, expected,
                 alert, svc, captureBar, query, sugVars>>

\* searchThrows whose catch block drops the result held.
searchThrowsClearsResult(call, response) ==
  /\ alert = Null
  /\ call \in searchCalls
  /\ semanticSearchThrows(response)
  /\ searchCalls' = searchCalls \ {call}
  /\ searchResult' = Null
  /\ isSearching' = FALSE
  /\ UNCHANGED <<storage, memories, isProcessingPending, devMode,
                 runs, nextId, lastOp, expected,
                 alert, svc, captureBar, query, sugVars>>

\* handleSearch after its await, semanticSearch having thrown.
searchThrows(call, response) ==
  /\ alert = Null
  /\ call \in searchCalls
  /\ semanticSearchThrows(response)
  /\ searchCalls' = searchCalls \ {call}
  /\ isSearching' = FALSE
  /\ UNCHANGED <<storage, memories, isProcessingPending, devMode,
                 searchResult, runs, nextId, lastOp, expected,
                 alert, svc, captureBar, query, sugVars>>

\* An invocation of handleBatchProcess suspended on analyzeInput: its
\* snapshot of pending records, the index of the record in hand and the
\* argument of the call in flight. The invocations have no identity of
\* their own, so those in flight are a bag.
Run(pending, i) ==
  [pending |-> pending, i |-> i, input |-> analyzeInputArg(pending[i])]

\* handleBatchProcess that makes the extraction calls for all pending records
\* at once instead of awaiting each in the loop.
handleBatchProcessAllAtOnce ==
  LET pending == FilterStatus(memories, "pending")
  IN  /\ alert = Null
      /\ BagCardinality(runs) < MaxRuns
      /\ Len(pending) # 0
      /\ isProcessingPending' = TRUE
      /\ runs' = runs (+) SetToBag({Run(pending, k) : k \in 1..Len(pending)})
      /\ UNCHANGED <<storage, memories, devMode, searchResult, isSearching,
                     searchCalls, nextId, lastOp, expected, alert, svc, captureBar, query,
                     sugVars>>

\* handleBatchProcess up to its first await: the snapshot of the pending
\* records of the list shown, and the extraction call for the first of them.
handleBatchProcess ==
  LET pending == FilterStatus(memories, "pending")
  IN  /\ alert = Null
      /\ BagCardinality(runs) < MaxRuns
      /\ Len(pending) # 0
      /\ isProcessingPending' = TRUE
      /\ runs' = runs (+) SetToBag({Run(pending, 1)})
      /\ UNCHANGED <<storage, memories, devMode, searchResult, isSearching,
                     searchCalls, nextId, lastOp, expected, alert, svc, captureBar, query,
                     sugVars>>

\* The batch button without its disabled attribute.
clickBatchProcessNeverDisabled ==
  /\ searchResult = Null
  /\ pendingCount(memories) > 0
  /\ handleBatchProcess

\* The batch button: shown in the list view while records are pending,
\* disabled while isProcessingPending.
clickBatchProcess ==
  /\ searchResult = Null
  /\ pendingCount(memories) > 0
  /\ ~isProcessingPending
  /\ handleBatchProcess

\* batchContinues that writes the run's own array back instead of calling
\* updateMemory, which reads the stored one again.
batchContinuesWritesBatch(run, response) ==
  LET mem == run.pending[run.i]
      result == analyzeInputValue(response)
  IN  /\ alert = Null
      /\ BagIn(run, runs)
      /\ ~analyzeInputThrows(response)
      /\ storage' = Stringify(Replaced(run.pending, updatedMem(mem, result)))
      /\ lastOp' = Op("batchUpdate", mem.id)
      /\ expected' = Replaced(expected, updatedMem(mem, result))
      /\ IF run.i < Len(run.pending)
         THEN /\ runs' = (runs (-) SetToBag({run}))
                           (+) SetToBag({Run(run.pending, run.i + 1)})
              /\ UNCHANGED <<memories, isProcessingPending>>
         ELSE /\ runs' = runs (-) SetToBag({run})
              /\ memories' = refreshMemories(storage')
              /\ isProcessingPending' = FALSE
      /\ UNCHANGED <<devMode, searchResult, isSearching, searchCalls, nextId,
                 alert, svc, captureBar, query, sugVars>>

\* batchContinues whose loop does not move on: after the update the same
\* record is submitted again.
batchContinuesRepeats(run, response) ==
  LET mem == run.pending[run.i]
      result == analyzeInputValue(response)
  IN  /\ alert = Null
      /\ BagIn(run, runs)
      /\ ~analyzeInputThrows(response)
      /\ storage' = updateMemory(storage, updatedMem(mem, result))
      /\ lastOp' = Op("batchUpdate", mem.id)
      /\ expected' = Replaced(expected, updatedMem(mem, result))
      /\ IF run.i < Len(run.pending)
         THEN /\ runs' = (runs (-) SetToBag({run}))
                           (+) SetToBag({Run(run.pending, run.i)})
              /\ UNCHANGED <<memories, isProcessingPending>>
         ELSE /\ runs' = runs (-) SetToBag({run})
              /\ memories' = refreshMemories(storage')
              /\ isProcessingPending' = FALSE
      /\ UNCHANGED <<devMode, searchResult, isSearching, searchCalls, nextId,
                 alert, svc, captureBar, query, sugVars>>

\* handleBatchProcess after an await, analyzeInput having returned: the
\* record is updated, then the next call is made or the run ends.
batchContinues(run, response) ==
  LET mem == run.pending[run.i]
      result == analyzeInputValue(response)
  IN  /\ alert = Null
      /\ BagIn(run, runs)
      /\ ~analyzeInputThrows(response)
      /\ storage' = updateMemory(storage, updatedMem(mem, result))
      /\ lastOp' = Op("batchUpdate", mem.id)
      /\ expected' = Replaced(expected, updatedMem(mem, result))
      /\ IF run.i < Len(run.pending)
         THEN /\ runs' = (runs (-) SetToBag({run}))
                           (+) SetToBag({Run(run.pending, run.i + 1)})
              /\ UNCHANGED <<memories, isProcessingPending>>
         ELSE /\ runs' = runs (-) SetToBag({run})
              /\ memories' = refreshMemories(storage')
              /\ isProcessingPending' = FALSE
      /\ UNCHANGED <<devMode, searchResult, isSearching, searchCalls, nextId,
                 alert, svc, captureBar, query, sugVars>>

\* batchFails whose catch block writes the record it was working on back.
batchFailsRestores(run, response) ==
  LET mem == run.pending[run.i]
  IN  /\ alert = Null
      /\ BagIn(run, runs)
      /\ analyzeInputThrows(response)
      /\ storage' = updateMemory(storage, mem)
      /\ runs' = runs (-) SetToBag({run})
      /\ alert' = BatchAlert
      /\ lastOp' = Op("batchRestore", mem.id)
      /\ expected' = Replaced(expected, mem)
      /\ UNCHANGED <<memories, isProcessingPending, devMode, searchResult,
                     isSearching, searchCalls, nextId, svc, captureBar, query, sugVars>>

\* batchFails with the try/catch inside the loop: the alert is raised and
\* the run goes on with the next record.
batchFailsGoesOn(run, response) ==
  LET mem == run.pending[run.i]
  IN  /\ alert = Null
      /\ BagIn(run, runs)
      /\ analyzeInputThrows(response)
      /\ runs' = IF run.i < Len(run.pending)
                 THEN (runs (-) SetToBag({run}))
                        (+) SetToBag({Run(run.pending, run.i + 1)})
                 ELSE runs (-) SetToBag({run})
      /\ alert' = BatchAlert
      /\ UNCHANGED <<storage, memories, isProcessingPending, devMode,
                     searchResult, isSearching, searchCalls, nextId, lastOp,
                     expected, svc, captureBar, query, sugVars>>

\* handleBatchProcess after an await, analyzeInput having thrown: the catch
\* block up to its alert, which blocks the page until it is dismissed.
batchFails(run, response) ==
  LET mem == run.pending[run.i]
  IN  /\ alert = Null
      /\ BagIn(run, runs)
      /\ analyzeInputThrows(response)
      /\ runs' = runs (-) SetToBag({run})
      /\ alert' = BatchAlert
      /\ UNCHANGED <<storage, memories, isProcessingPending, devMode,
                     searchResult, isSearching, searchCalls, nextId, lastOp,
                     expected, svc, captureBar, query, sugVars>>

\* dismissAlert of a handler without its finally block.
dismissAlertKeepsFlag ==
  /\ alert = BatchAlert
  /\ alert' = Null
  /\ UNCHANGED <<storage, memories, isProcessingPending, devMode, searchResult,
                 isSearching, searchCalls, runs, nextId, lastOp, expected, svc, captureBar,
                 query, sugVars>>

\* The alert is dismissed: the catch block ends and the finally block runs.
dismissAlert ==
  /\ alert = BatchAlert
  /\ alert' = Null
  /\ isProcessingPending' = FALSE
  /\ UNCHANGED <<storage, memories, devMode, searchResult, isSearching,
                 searchCalls, runs, nextId, lastOp, expected, svc, captureBar, query, sugVars>>

\* ----------------------------------------------------------- specification
Capture ==
  \/ \E text \in Texts, t \in Times : handleTextSubmit(text, t)
  \/ \E blob \in AudioBlobs, t \in Times : saveAudioMemory(blob, t)
  \/ \E t \in Times : generateRandomMemory(t)

Search ==
  \/ \E text \in Texts : handleSearch(text)
  \/ handleClearSearch
  \/ \E call \in searchCalls, response \in SearchResponses :
       searchReturns(call, response)
  \/ \E call \in searchCalls, response \in SearchResponses :
       searchThrows(call, response)

BatchStep ==
  \/ \E run \in BagToSet(runs), response \in AnalyzeResponses :
       batchContinues(run, response)
  \/ \E run \in BagToSet(runs), response \in AnalyzeResponses :
       batchFails(run, response)

\* The application as its interface drives it.
Next ==
  \/ Capture
  \/ Search
  \/ toggleDevMode
  \/ clearAll
  \/ clickBatchProcess
  \/ BatchStep
  \/ dismissAlert

Spec == Init /\ [][Next]_vars

\* The record workflow alone: the application with no search made. The
\* search handlers write neither storage nor the list nor the runs, so
\* every behaviour of Spec is one of SpecBatch with its search steps left out.
NextBatch ==
  \/ Capture
  \/ toggleDevMode
  \/ clearAll
  \/ clickBatchProcess
  \/ BatchStep
  \/ dismissAlert

SpecBatch == Init /\ [][NextBatch]_vars

\* Text capture and batch reconciliation, every analyzeInput call of a run
\* eventually resolving or rejecting.
NextRun ==
  \/ \E text \in Texts, t \in Times : handleTextSubmit(text, t)
  \/ clickBatchProcess
  \/ BatchStep
  \/ dismissAlert

SpecBatchFair == Init /\ [][NextRun]_vars /\ WF_vars(BatchStep)

\* The CaptureBar that transcribes a voice at once, with text capture.
NextAudio ==
  \/ \E text \in Texts, t \in Times : handleTextSubmit(text, t)
  \/ \E blob \in AudioBlobs : processAudio(blob)
  \/ \E blob \in AudioBlobs, t \in Times : readerLoaded(blob, t)
  \/ \E call \in BagToSet(captureBar.calls), response \in AnalyzeResponses :
       voiceReturns(call, response)
  \/ \E call \in BagToSet(captureBar.calls), response \in AnalyzeResponses :
       voiceThrows(call, response)

SpecAudio == Init /\ [][NextAudio]_vars

\* handleBatchProcess invoked whatever the button's state: runs may overlap.
NextOverlap ==
  \/ Capture
  \/ toggleDevMode
  \/ clearAll
  \/ handleBatchProcess
  \/ BatchStep
  \/ dismissAlert

SpecOverlap == Init /\ [][NextOverlap]_vars

\* -------------------------------------------------------- SmartSuggestions
\* The questions the component's catch handler sets.
ComponentFallback == <<"did", "people", "shopping">>

\* effectDeps while the component is not mounted.
NotMounted == -1

\* App renders the component in the list view while no search is running.
ShouldRenderSuggestions == searchResult = Null /\ ~isSearching

\* The memories prop App passes.
suggestionsProps == processedMemories(memories)

\* The component is as React leaves it after committing App's state: not
\* mounted, or mounted with its effect run for the current memories.length.
Synced ==
  effectDeps =
    IF ShouldRenderSuggestions THEN Len(suggestionsProps) ELSE NotMounted

\* React commits App's last state change to the component: it is unmounted
\* (its state is dropped, its promises settle unheard), or (re)mounted or
\* re-rendered with its effect run because memories.length has changed.
renderSuggestions ==
  /\ alert = Null
  /\ ~Synced
  /\ IF ~ShouldRenderSuggestions
     THEN /\ effectDeps' = NotMounted
          /\ suggestions' = <<>>
          /\ loading' = FALSE
          /\ suggestCalls' = EmptyBag
          /\ suggestCause' = "mount"
     ELSE /\ effectDeps' = Len(suggestionsProps)
          /\ IF Len(suggestionsProps) > 0
             THEN /\ loading' = TRUE
                  /\ suggestCalls' =
                       suggestCalls (+) SetToBag({[memories |-> suggestionsProps]})
             ELSE UNCHANGED <<loading, suggestCalls>>
          /\ UNCHANGED <<suggestions, suggestCause>>
  /\ UNCHANGED <<storage, memories, isProcessingPending, devMode, searchResult,
                 isSearching, searchCalls, runs, nextId, alert, svc, captureBar, query, lastOp,
                 expected>>

\* generateSuggestions has returned: .then(setSuggestions), .finally.
suggestionsResolve(call, response) ==
  /\ alert = Null
  /\ BagIn(call, suggestCalls)
  /\ generateSuggestionsReturnsEarly(call.memories)
       \/ ~generateSuggestionsThrows(response)
  /\ suggestCalls' = suggestCalls (-) SetToBag({call})
  /\ suggestions' = IF generateSuggestionsReturnsEarly(call.memories)
                    THEN StaticSuggestions
                    ELSE generateSuggestionsValue(response)
  /\ loading' = FALSE
  /\ suggestCause' = IF generateSuggestionsReturnsEarly(call.memories)
                     THEN "empty" ELSE response.kind
  /\ UNCHANGED <<storage, memories, isProcessingPending, devMode, searchResult,
                 isSearching, searchCalls, runs, nextId, alert, svc, captureBar, query, lastOp,
                 expected, effectDeps>>

\* generateSuggestions has thrown: .catch(() => setSuggestions([...])).
suggestionsReject(call, response) ==
  /\ alert = Null
  /\ BagIn(call, suggestCalls)
  /\ ~generateSuggestionsReturnsEarly(call.memories)
  /\ generateSuggestionsThrows(response)
  /\ suggestCalls' = suggestCalls (-) SetToBag({call})
  /\ suggestions' = ComponentFallback
  /\ loading' = FALSE
  /\ suggestCause' = response.kind
  /\ UNCHANGED <<storage, memories, isProcessingPending, devMode, searchResult,
                 isSearching, searchCalls, runs, nextId, alert, svc, captureBar, query, lastOp,
                 expected, effectDeps>>

\* The events of the record workflow and of retrieval.
AppEvent ==
  \/ \E text \in Texts, t \in Times : handleTextSubmit(text, t)
  \/ clickBatchProcess
  \/ BatchStep
  \/ dismissAlert
  \/ Search

\* Text capture, batch reconciliation and search on their own.
SpecSearch == Init /\ [][AppEvent]_vars

\* The application with its suggestions: an event is handled once React has
\* committed the state the previous one left.
NextSuggest ==
  \/ renderSuggestions
  \/ \E call \in BagToSet(suggestCalls), response \in SuggestResponses :
       suggestionsResolve(call, response)
  \/ \E call \in BagToSet(suggestCalls), response \in SuggestResponses :
       suggestionsReject(call, response)
  \/ Synced /\ AppEvent

SpecSuggest == Init /\ [][NextSuggest]_vars

\* ------------------------------------------- geminiService on its own
\* Records a caller may pass: one read from old storage, one made by the
\* developer tool, one reconciled by a batch run.
ServiceRecords ==
  { getMemories(Stringify(<<LegacyMemory>>))[1],
    newRandomMemory(1, 1),
    updatedMem(newTextMemory(2, <<" ", "a">>, 2),
               CHOOSE v \in AnalyzeResults : TRUE) }

\* The lists of at most MaxCorpus of them, the empty one included.
Corpora == UNION { [1..n -> ServiceRecords] : n \in 0..MaxCorpus }

\* The calls of the three exported functions.
ServiceCalls ==
  { [fn |-> "analyzeInput", arg |-> analyzeInputArg(m)] :
      m \in { newTextMemory(1, <<" ", "a">>, 1),
              newAudioMemory(1, CHOOSE b \in AudioBlobs : TRUE, 1) } }
  \cup { [fn |-> "semanticSearch", arg |-> [query |-> q, memories |-> ms]] :
           q \in { t \in Texts : Trim(t) # <<>> }, ms \in Corpora }
  \cup { [fn |-> "generateSuggestions", arg |-> [memories |-> ms]] :
           ms \in Corpora }

NoOutcome == [kind |-> "none", value |-> Null]
Thrown == [kind |-> "throw", value |-> Null]
Returned(v) == [kind |-> "return", value |-> v]

\* A function of the service has just been called by some caller.
InitService ==
  /\ storage = NoItem
  /\ memories = refreshMemories(storage)
  /\ isProcessingPending = FALSE
  /\ devMode = FALSE
  /\ searchResult = Null
  /\ isSearching = FALSE
  /\ searchCalls = {}
  /\ runs = EmptyBag
  /\ nextId = 1
  /\ alert = Null
  /\ suggestions = <<>>
  /\ loading = FALSE
  /\ effectDeps = 0
  /\ suggestCalls = EmptyBag
  /\ suggestCause = "mount"
  /\ query = <<>>
  /\ captureBar = CaptureBarInit
  /\ \E c \in ServiceCalls :
       svc = [fn |-> c.fn, arg |-> c.arg, pc |-> "called", requests |-> 0,
              response |-> Null, outcome |-> NoOutcome]
  /\ lastOp = Op("init", -1)
  /\ expected = getMemories(storage)

\* What every step of a service function leaves alone.
appVars ==
  <<storage, memories, isProcessingPending, devMode, searchResult,
    isSearching, searchCalls, runs, nextId, alert, sugVars, lastOp, expected,
    query, captureBar>>

\* analyzeInput and semanticSearch up to their await: the request is sent.
requestSent(fn) ==
  /\ svc.fn = fn
  /\ svc.pc = "called"
  /\ svc' = [svc EXCEPT !.pc = "await", !.requests = @ + 1]
  /\ UNCHANGED appVars

\* generateSuggestions up to its await, or to its early return.
generateSuggestionsCalled ==
  /\ svc.fn = "generateSuggestions"
  /\ svc.pc = "called"
  /\ IF generateSuggestionsReturnsEarly(svc.arg.memories)
     THEN svc' = [svc EXCEPT !.pc = "done",
                             !.outcome = Returned(StaticSuggestions)]
     ELSE svc' = [svc EXCEPT !.pc = "await", !.requests = @ + 1]
  /\ UNCHANGED appVars

analyzeInputSettles(response) ==
  /\ svc.fn = "analyzeInput"
  /\ svc.pc = "await"
  /\ svc' = [svc EXCEPT
               !.pc = "done",
               !.response = response.kind,
               !.outcome = IF analyzeInputThrows(response) THEN Thrown
                           ELSE Returned(analyzeInputValue(response))]
  /\ UNCHANGED appVars

semanticSearchSettles(response) ==
  /\ svc.fn = "semanticSearch"
  /\ svc.pc = "await"
  /\ svc' = [svc EXCEPT
               !.pc = "done",
               !.response = response.kind,
               !.outcome = IF semanticSearchThrows(response) THEN Thrown
                           ELSE Returned(semanticSearchValue(response))]
  /\ UNCHANGED appVars

generateSuggestionsSettles(response) ==
  /\ svc.fn = "generateSuggestions"
  /\ svc.pc = "await"
  /\ svc' = [svc EXCEPT
               !.pc = "done",
               !.response = response.kind,
               !.outcome = IF generateSuggestionsThrows(response) THEN Thrown
                           ELSE Returned(generateSuggestionsValue(response))]
  /\ UNCHANGED appVars

NextService ==
  \/ requestSent("analyzeInput")
  \/ requestSent("semanticSearch")
  \/ generateSuggestionsCalled
  \/ \E response \in AnalyzeResponses : analyzeInputSettles(response)
  \/ \E response \in SearchResponses : semanticSearchSettles(response)
  \/ \E response \in SuggestResponses : generateSuggestionsSettles(response)

SpecService == InitService /\ [][NextService]_vars

\* ------------------------------------------------------------- properties
\* The stored collection as the persistence adapter reads it.
Stored == getMemories(storage)

\* The ids of a collection, and the record of an id that is among them.
IdsOf(ms) == { ms[i].id : i \in 1..Len(ms) }

RecordOf(ms, id) == ms[CHOOSE i \in 1..Len(ms) : ms[i].id = id]

StoredIds == IdsOf(Stored)

StoredRecord(id) == RecordOf(Stored, id)

Reconciled == <<"P1">>

\* C1: every record of the list handed to semanticSearch has status
\* processed, in the list and (while it is stored) in storage: a record
\* inserted as pending is in no corpus before its stored status is processed.
C1_CorpusIsProcessed ==
  \A call \in searchCalls :
    \A i \in 1..Len(call.memories) :
      /\ call.memories[i].status = "processed"
      /\ call.memories[i].id \in StoredIds =>
           StoredRecord(call.memories[i].id).status = "processed"

\* A search is awaiting the remote model with a reconciled record in its
\* corpus, while the list shown holds a pending record that is not in it.
C1_Witness ==
  \E call \in searchCalls :
    /\ \E i \in 1..Len(call.memories) :
         call.memories[i].processedContent = Reconciled
    /\ \E j \in 1..Len(memories) :
         /\ memories[j].status = "pending"
         /\ \A i \in 1..Len(call.memories) :
              call.memories[i].id # memories[j].id

\* C2: when the extraction call of the k-th record of a run's batch fails,
\* at the end of the run the records 1..k-1 of the batch are processed in
\* storage and the records k..n are still pending there, with the
\* processedContent and tags they had (a record that clear-all removed in
\* between is no longer in storage and is left out).
C2_AbortKeepsPrefixOnly ==
  [][\A run \in BagToSet(runs), response \in AnalyzeResponses :
       batchFails(run, response) =>
         \A j \in 1..Len(run.pending) :
           LET m == run.pending[j]
               after == getMemories(storage')
           IN  m.id \in IdsOf(after) =>
                 IF j < run.i
                 THEN RecordOf(after, m.id).status = "processed"
                 ELSE /\ RecordOf(after, m.id).status = "pending"
                      /\ RecordOf(after, m.id).processedContent
                           = m.processedContent
                      /\ RecordOf(after, m.id).tags = m.tags]_vars

\* C3: a record a batch run has submitted to analyzeInput, and will rewrite
\* with updateMemory, is flagged pending in storage: no record whose stored
\* status is processed is submitted again or overwritten.
C3_OnlyPendingSubmitted ==
  \A run \in BagToSet(runs) :
    LET m == run.pending[run.i]
    IN  m.id \in StoredIds => StoredRecord(m.id).status = "pending"

\* C4: getMemories returns the collection that the saveMemory (prepend),
\* updateMemory (replace by id) and clearMemories (empty) calls made so far
\* give, applied in order to the initial collection.
C4_GetMemoriesIsNetEffect == getMemories(storage) = expected

\* Record 1 was inserted and cleared, record 2 inserted after the clear and
\* then updated by a batch run: all three operations have acted, in order.
C4_Witness ==
  /\ 1 \notin StoredIds
  /\ 2 \in StoredIds
  /\ StoredRecord(2).status = "processed"
  /\ StoredRecord(2).processedContent = Reconciled
  /\ lastOp.op = "batchUpdate"

\* C5: a stored record is pending or processed, nothing else, and once its
\* stored status is processed every later state in which it is stored has
\* it processed, whatever captures, updates and overlapping or aborted batch
\* runs follow.
C5_ProcessedIsTerminal ==
  /\ [](LET stored == getMemories(storage)
        IN  \A i \in 1..Len(stored) :
              stored[i].status \in {"pending", "processed"})
  /\ [][storage' # storage =>
          LET before == getMemories(storage)
              after == getMemories(storage')
          IN  \A i \in 1..Len(before), j \in 1..Len(after) :
                (before[i].id = after[j].id /\ before[i].status = "processed")
                  => after[j].status = "processed"]_vars

\* A run is awaiting the extraction of a record that another run already
\* made processed in storage: its update is still to come.
C5_Witness ==
  /\ BagCardinality(runs) >= 2
  /\ \E run \in BagToSet(runs) :
       /\ run.pending[run.i].id \in StoredIds
       /\ StoredRecord(run.pending[run.i].id).status = "processed"

\* C6: when analyzeInput returns for a record that is pending in storage,
\* the stored record gets exactly the returned processedContent and tags and
\* the status processed.
C6_ReconciliationStoresResult ==
  [][\A run \in BagToSet(runs), response \in AnalyzeResponses :
       LET id == run.pending[run.i].id
           after == getMemories(storage')
       IN  ( /\ batchContinues(run, response)
             /\ id \in StoredIds
             /\ StoredRecord(id).status = "pending" ) =>
             /\ id \in IdsOf(after)
             /\ RecordOf(after, id).processedContent
                  = analyzeInputValue(response).processedContent
             /\ RecordOf(after, id).tags = analyzeInputValue(response).tags
             /\ RecordOf(after, id).status = "processed"]_vars

\* A batch run has just reconciled a typed note: the stored record keeps
\* the text as rawContent and holds the returned summary and tags.
C6_Witness ==
  /\ lastOp.op = "batchUpdate"
  /\ lastOp.id \in StoredIds
  /\ StoredRecord(lastOp.id).rawContent = <<" ", "a">>
  /\ StoredRecord(lastOp.id).processedContent = Reconciled
  /\ StoredRecord(lastOp.id).tags # EmptyTags
  /\ StoredRecord(lastOp.id).status = "processed"

\* C7: a text capture of non-blank text puts exactly one new record in
\* front of the stored collection, with status pending, processedContent
\* and rawContent both the submitted text and no tags, and starts no
\* extraction call.
C7_TextCaptureStoresPending ==
  [][\A text \in Texts, t \in Times :
       handleTextSubmit(text, t) =>
         LET after == getMemories(storage')
         IN  /\ Trim(text) # <<>>
             /\ Len(after) = Len(Stored) + 1
             /\ Tail(after) = Stored
             /\ Head(after).id \notin StoredIds
             /\ Head(after).status = "pending"
             /\ Head(after).rawContent = text
             /\ Head(after).processedContent = text
             /\ Head(after).tags = EmptyTags
             /\ runs' = runs]_vars

\* A text capture has just stored its record behind nothing: the newest
\* stored record is the pending note, beside an older record.
C7_Witness ==
  /\ lastOp.op = "text"
  /\ Len(Stored) >= 2
  /\ Head(Stored).id = lastOp.id
  /\ Head(Stored).status = "pending"
  /\ Head(Stored).processedContent = Head(Stored).rawContent

\* C8: no step of a batch run (its start, an update, its abort) changes or
\* drops the audioData and mimeType of a stored record.
C8_ReconciliationKeepsAudio ==
  [][(clickBatchProcess \/ BatchStep) =>
       \A id \in StoredIds :
         LET after == getMemories(storage')
         IN  StoredRecord(id).audioData # Undefined =>
               /\ id \in IdsOf(after)
               /\ RecordOf(after, id).audioData = StoredRecord(id).audioData
               /\ RecordOf(after, id).mimeType = StoredRecord(id).mimeType]_vars

\* A batch run has just reconciled a voice record, which still holds its
\* recording.
C8_Witness ==
  /\ lastOp.op = "batchUpdate"
  /\ lastOp.id \in StoredIds
  /\ StoredRecord(lastOp.id).status = "processed"
  /\ StoredRecord(lastOp.id).processedContent = Reconciled
  /\ StoredRecord(lastOp.id).audioData = "AAAA"
  /\ StoredRecord(lastOp.id).mimeType = "audio/webm"

\* C9: the update of a batch run changes only processedContent,
\* tags and status of the record it reconciles and leaves every other
\* record of the stored array as it was.
C9_UpdateChangesOnlyItsRecord ==
  [][\A run \in BagToSet(runs), response \in AnalyzeResponses :
       LET id == run.pending[run.i].id
       IN  (batchContinues(run, response) /\ id \in StoredIds) =>
             /\ Len(storage'.items) = Len(storage.items)
             /\ \A i \in 1..Len(storage.items) :
                  IF storage.items[i].id = id
                  THEN storage'.items[i] =
                         [storage.items[i] EXCEPT
                            !.processedContent = storage'.items[i].processedContent,
                            !.tags = storage'.items[i].tags,
                            !.status = storage'.items[i].status]
                  ELSE storage'.items[i] = storage.items[i]]_vars

\* A batch run has just reconciled one of at least two stored records; the
\* other one is still pending.
C9_Witness ==
  /\ lastOp.op = "batchUpdate"
  /\ lastOp.id \in StoredIds
  /\ StoredRecord(lastOp.id).processedContent = Reconciled
  /\ \E id \in StoredIds : id # lastOp.id /\ StoredRecord(id).status = "pending"

\* C10: the updateMemory call of a batch run for an id that is not in
\* storage leaves the stored value as it is: no record is created, and a
\* record that clear-all removed during the run does not come back.
C10_UpdateOfAbsentIdIsNoOp ==
  [][\A run \in BagToSet(runs), response \in AnalyzeResponses :
       ( /\ batchContinues(run, response)
         /\ run.pending[run.i].id \notin StoredIds ) =>
           storage' = storage]_vars

\* A batch run has just called updateMemory for a record that clear-all
\* had removed: the store is still empty.
C10_Witness ==
  /\ lastOp.op = "batchUpdate"
  /\ lastOp.id \notin StoredIds
  /\ storage = NoItem

\* C11: getMemories returns a stored record that has no status with status
\* processed and a record that has one with that status; a record stored
\* without status is therefore in the corpus of a search made while the list
\* shows it, and in no batch run's snapshot of pending records.
C11_MissingStatusReadAsProcessed ==
  /\ [](storage.kind = "json" =>
          /\ Len(Stored) = Len(storage.items)
          /\ \A i \in 1..Len(storage.items) :
               Stored[i].status =
                 IF storage.items[i].status = Undefined
                 THEN "processed" ELSE storage.items[i].status)
  /\ [](\A run \in BagToSet(runs) :
          \A j \in 1..Len(run.pending) : run.pending[j].id # LegacyMemory.id)
  /\ [][\A i \in 1..Len(memories) :
          (memories[i].id = LegacyMemory.id /\ isSearching') =>
            \A text \in Texts :
              (Trim(text) # <<>> /\ handleSearch(text)) =>
                \E call \in searchCalls' :
                  /\ call.query = text
                  /\ \E k \in 1..Len(call.memories) :
                       /\ call.memories[k].id = LegacyMemory.id
                       /\ call.memories[k].status = "processed"]_vars

\* The stored array still holds the record without status, and a search
\* awaiting the remote model has it in its corpus as a processed record.
C11_Witness ==
  /\ storage.kind = "json"
  /\ \E i \in 1..Len(storage.items) : storage.items[i].status = Undefined
  /\ \E call \in searchCalls :
       \E k \in 1..Len(call.memories) :
         /\ call.memories[k].id = LegacyMemory.id
         /\ call.memories[k].status = "processed"

\* C12: a step that is not the clear-all removes no record: every id read
\* from storage before a capture, a batch start, a batch update or a batch
\* abort is read from it afterwards, however captures and runs interleave.
C12_OnlyClearAllDeletes ==
  [][(storage' # storage /\ ~clearAll) =>
       StoredIds \subseteq IdsOf(getMemories(storage'))]_vars

\* Three records are stored, the last write being a batch update: captures
\* and updates have both acted and every id is still there.
C12_Witness ==
  /\ lastOp.op = "batchUpdate"
  /\ {0, 1, 2} \subseteq StoredIds

\* C13: generateSuggestions called with an empty list returns the three
\* static questions and sends no request to the remote model.
C13_EmptyListGivesStaticSuggestions ==
  ( /\ svc.fn = "generateSuggestions"
    /\ svc.pc # "called"
    /\ Len(svc.arg.memories) = 0 ) =>
      /\ svc.pc = "done"
      /\ svc.requests = 0
      /\ svc.outcome = Returned(StaticSuggestions)
      /\ Len(svc.outcome.value) = 3

\* generateSuggestions has returned for the empty list.
C13_Witness ==
  /\ svc.fn = "generateSuggestions"
  /\ svc.arg.memories = <<>>
  /\ svc.pc = "done"
  /\ svc.outcome.kind = "return"

\* C14: when no memories exist (the component is rendered with an empty
\* list and no call is in flight) and when the last suggestion call failed
\* remotely, the suggestions shown are the same static list of three.
C14_FallbackIsOneStaticList ==
  /\ ( /\ ShouldRenderSuggestions
       /\ Synced
       /\ Len(suggestionsProps) = 0
       /\ suggestCalls = EmptyBag ) => suggestions = StaticSuggestions
  /\ suggestCause \in {"reject", "garbage"} => suggestions = StaticSuggestions

\* C15: a call of analyzeInput, semanticSearch or generateSuggestions whose
\* response has no text, or text that is not JSON, throws.
C15_BadResponseFailsTheCall ==
  (svc.pc = "done" /\ svc.response \in {"notext", "garbage"}) =>
    svc.outcome = Thrown

\* C16: while the stored text is not JSON, getMemories returns the empty
\* collection, the list shown is empty and no alert is raised; a capture
\* made then stores its record alone, shows it and raises no alert.
C16_ParseFailureReadsAsEmpty ==
  /\ [](storage.kind = "bad" =>
          /\ getMemories(storage) = <<>>
          /\ memories = <<>>
          /\ alert = Null)
  /\ [][\A text \in Texts, t \in Times :
          (storage.kind = "bad" /\ handleTextSubmit(text, t)) =>
            /\ getMemories(storage') = <<newTextMemory(nextId, text, t)>>
            /\ memories' = getMemories(storage')
            /\ alert' = Null]_vars

\* The stored text is not JSON and the application is in use: developer
\* mode has been switched on over the empty list.
C16_Witness ==
  /\ storage = BadItem
  /\ memories = <<>>
  /\ devMode

\* C17: when an extraction call of a batch run fails, the run makes no
\* further call (none is in flight afterwards), storage is left as it is,
\* so the records the run had reconciled are still processed there, and one
\* alert is raised; nothing else raises that alert, and dismissing it
\* starts no call and writes nothing.
C17_AbortStopsRunWithOneNotice ==
  [][/\ \A run \in BagToSet(runs), response \in AnalyzeResponses :
          batchFails(run, response) =>
            LET after == getMemories(storage')
            IN  /\ runs' = EmptyBag
                /\ storage' = storage
                /\ \A j \in 1..(run.i - 1) :
                     run.pending[j].id \in IdsOf(after) =>
                       /\ RecordOf(after, run.pending[j].id).status = "processed"
                       /\ RecordOf(after, run.pending[j].id).processedContent
                            = Reconciled
                /\ alert = Null
                /\ alert' = BatchAlert
     /\ (alert' # alert /\ alert' = BatchAlert) =>
          \E run \in BagToSet(runs), response \in AnalyzeResponses :
            batchFails(run, response)
     /\ dismissAlert => (runs' = runs /\ storage' = storage)]_vars

\* A run has aborted on its second record: the alert is open, no call is
\* in flight, the first record is processed in storage and the second is
\* still pending there.
C17_Witness ==
  /\ alert = BatchAlert
  /\ runs = EmptyBag
  /\ \E a, b \in StoredIds :
       /\ StoredRecord(a).status = "processed"
       /\ StoredRecord(a).processedContent = Reconciled
       /\ StoredRecord(b).status = "pending"

\* C18 as claimed: nothing guards a concurrent invocation, so whenever the
\* list view shows pending records (and no alert blocks the page) a click
\* starts a batch run, also while a run is in progress.
C18_ConcurrentInvocationNotGuarded ==
  ( /\ searchResult = Null
    /\ pendingCount(memories) > 0
    /\ alert = Null
    /\ BagCardinality(runs) < MaxRuns ) => ENABLED clickBatchProcess

\* C18 as amended: the batch button guards the invocation, so at most one
\* batch run is in flight, and isProcessingPending is set while it is: no
\* two runs overlap and no record is submitted by two runs at a time.
C18_RunsDoNotOverlap ==
  /\ BagCardinality(runs) <= 1
  /\ runs # EmptyBag => isProcessingPending

\* A run is in flight while the list view still shows pending records: the
\* button is on the page, disabled.
C18_Witness ==
  /\ BagCardinality(runs) = 1
  /\ isProcessingPending
  /\ searchResult = Null
  /\ pendingCount(memories) > 0
  /\ alert = Null

C20_RunIsSequential ==
  /\ [](/\ BagCardinality(runs) <= 1
        /\ \A run \in BagToSet(runs) :
             /\ run.i \in 1..Len(run.pending)
             /\ run.input = analyzeInputArg(run.pending[run.i])
             /\ \A k \in 1..(run.i - 1) :
                  run.pending[k].id \in StoredIds =>
                    StoredRecord(run.pending[k].id).status = "processed")
  /\ [][\A run \in BagToSet(runs') \ BagToSet(runs) :
          \/ runs = EmptyBag /\ run.i = 1 /\ storage' = storage
          \/ /\ run.i > 1
             /\ BagToSet(runs) = {Run(run.pending, run.i - 1)}
             /\ lastOp' = Op("batchUpdate", run.pending[run.i - 1].id)
             /\ \E response \in AnalyzeResponses :
                  /\ ~analyzeInputThrows(response)
                  /\ storage' =
                       updateMemory(storage,
                                    updatedMem(run.pending[run.i - 1],
                                               analyzeInputValue(response)))]_vars

\* A run of two records has had the first one updated and awaits the call
\* for the second: one call in flight, record one processed in storage,
\* record two still pending.
C20_Witness ==
  /\ BagCardinality(runs) = 1
  /\ \E run \in BagToSet(runs) :
       /\ Len(run.pending) = 2
       /\ run.i = 2
       /\ {run.pending[1].id, run.pending[2].id} \subseteq StoredIds
       /\ StoredRecord(run.pending[1].id).status = "processed"
       /\ StoredRecord(run.pending[2].id).status = "pending"

\* C21: one invocation of handleBatchProcess visits each pending record at
\* most once, in the order of the in-memory collection. The run's records
\* are the pending records of the list in list order, their ids differ from
\* one another, the first call is for the first of them, and every
\* completed call moves the run to the next position or ends it, so no id
\* is submitted twice by the run.
C21_EachPendingVisitedOnceInOrder ==
  /\ [](\A run \in BagToSet(runs) :
          \A j, k \in 1..Len(run.pending) :
            run.pending[j].id = run.pending[k].id => j = k)
  /\ [][/\ handleBatchProcess =>
            runs' = SetToBag({Run(FilterStatus(memories, "pending"), 1)})
        /\ \A run \in BagToSet(runs), response \in AnalyzeResponses :
             batchContinues(run, response) =>
               runs' = IF run.i < Len(run.pending)
                       THEN SetToBag({Run(run.pending, run.i + 1)})
                       ELSE EmptyBag]_vars

\* The list shows two pending records; the run has updated the first of
\* them in list order and the call for the second is in flight.
C21_Witness ==
  /\ Len(FilterStatus(memories, "pending")) = 2
  /\ runs = SetToBag({Run(FilterStatus(memories, "pending"), 2)})
  /\ lastOp = Op("batchUpdate", FilterStatus(memories, "pending")[1].id)

\* C22: a stored record is pending if and only if it has not been through
\* analyzeInput. A record whose insertion is the last write to storage has
\* been through no extraction call and so is pending, and a record whose
\* update by a batch run is the last write is processed.
C22_PendingIffNotExtracted ==
  /\ (lastOp.op \in {"text", "audio", "random"} /\ lastOp.id \in StoredIds)
       => StoredRecord(lastOp.id).status = "pending"
  /\ (lastOp.op = "batchUpdate" /\ lastOp.id \in StoredIds)
       => StoredRecord(lastOp.id).status = "processed"

C24_FailedSearchIsOnlyLogged ==
  [][\A call \in searchCalls, response \in SearchResponses :
       searchThrows(call, response) =>
         /\ isSearching' = FALSE
         /\ searchResult' = searchResult
         /\ query' = query
         /\ alert' = Null
         /\ storage' = storage
         /\ memories' = memories]_vars

\* A search has failed: its query is still in the input, no call is in
\* flight, nothing is being searched, no result is held and no alert is
\* open.
C24_Witness ==
  /\ query # <<>>
  /\ searchCalls = {}
  /\ ~isSearching
  /\ searchResult = Null
  /\ alert = Null

\* C25: the list App holds is always ordered by timestamp, newest first,
\* whatever the order of insertion and whatever timestamps the captures
\* were given, and so is the snapshot a batch run works through: the run
\* reconciles its pending records newest first.
C25_ListIsNewestFirst ==
  /\ \A i, j \in 1..Len(memories) :
       i < j => memories[i].timestamp >= memories[j].timestamp
  /\ \A run \in BagToSet(runs) :
       \A i, j \in 1..Len(run.pending) :
         i < j => run.pending[i].timestamp >= run.pending[j].timestamp

\* The record stored first in the array is older than the one stored after
\* it, and the run in flight has the newer one first in its snapshot and is
\* still at it.
C25_Witness ==
  /\ Len(Stored) = 2
  /\ Stored[1].timestamp < Stored[2].timestamp
  /\ runs = SetToBag({Run(<<Stored[2], Stored[1]>>, 1)})

\* C26: after every completed operation, an aborted batch run included, the
\* list App holds is the stored collection sorted by timestamp descending
\* and the pending count shown is the number of pending records in
\* storage. No operation is under way when no batch run is in flight and
\* no alert is open.
C26_ListAgreesWithStorage ==
  (runs = EmptyBag /\ alert = Null) =>
    /\ memories = SortDesc(Stored)
    /\ pendingCount(memories) = Len(FilterStatus(Stored, "pending"))

\* C27: the result shown belongs to the query submitted last. The response
\* of a semanticSearch call becomes searchResult only if the search has not
\* been cleared and no other query has been submitted since the call was
\* made: the search is still going on and the call's query is the one in
\* the input.
C27_ResultBelongsToLatestQuery ==
  [][\A call \in searchCalls, response \in SearchResponses :
       searchReturns(call, response) =>
         (isSearching /\ call.query = query)]_vars

\* C28 as claimed: isProcessingPending is true from the start of a batch
\* run to its end, and every run that starts ends with it reset to false,
\* given only that every analyzeInput call resolves or rejects.
C28_EveryRunEnds ==
  /\ []((runs # EmptyBag \/ alert = BatchAlert) => isProcessingPending)
  /\ (isProcessingPending ~> ~isProcessingPending)

\* C28 as amended: isProcessingPending is true from the start of a batch
\* run to its end, and every run that starts ends with it reset to false,
\* given that every analyzeInput call resolves or rejects and that the
\* failure alert, which holds the handler before its finally block, is
\* dismissed: a run that has started comes to the reset of the flag or to
\* the open alert, and the step that dismisses the alert resets the flag.
C28_EveryRunEndsOnceAlertDismissed ==
  /\ []((runs # EmptyBag \/ alert = BatchAlert) => isProcessingPending)
  /\ (isProcessingPending ~> (~isProcessingPending \/ alert = BatchAlert))
  /\ [][(alert = BatchAlert /\ alert' = Null) => ~isProcessingPending']_vars

\* A run has updated a record, failed on the next and ended when the alert
\* was dismissed: nothing is in flight, the flag is reset and the list
\* still shows the updated record pending.
C28_Witness ==
  /\ runs = EmptyBag
  /\ alert = Null
  /\ ~isProcessingPending
  /\ lastOp.op = "batchUpdate"
  /\ \E i \in 1..Len(memories) :
       memories[i].id = lastOp.id /\ memories[i].status = "pending"

\* C29: in the CaptureBar that transcribes a voice at once, isProcessing is
\* true from the start of processAudio until the extraction call for the
\* recording has completed and the record, on success, has been saved; and
\* a failed extraction call opens the voice-processing alert and inserts no
\* record.
C29_ProcessingCoversTranscription ==
  /\ [](Recordings > 0 => captureBar.isProcessing)
  /\ [][\A call \in BagToSet(captureBar.calls),
          response \in AnalyzeResponses :
          voiceThrows(call, response) =>
            (alert' = VoiceAlert /\ storage' = storage)]_vars

\* C30: a stored blob that cannot be parsed is not destroyed by a mutation.
\* While storage holds such a blob, updateMemory in a batch run leaves
\* storage as it is, and a capture does not leave storage holding just the
\* record it inserted.
C30_UnparseableBlobSurvivesMutation ==
  [][storage.kind = "bad" =>
       /\ BatchStep => storage' = storage
       /\ Capture => ~(storage'.kind = "json" /\ Len(storage'.items) = 1)]_vars

====
